---- MODULE Spec2Model ----
(***************************************************************************)
(* State-machine model of the companion backend's task orchestration and   *)
(* protocol-state engine: the plan interpreter (TaskOrchestrator), the     *)
(* MEMORY / COMMAND / QUERY handlers, the protocol event log, the          *)
(* relational-field state, the ArchiveService counter and the context      *)
(* assembler (LlmContextManager).                                          *)
(***************************************************************************)
EXTENDS Integers, Sequences, FiniteSets, TLC

\* ------------------------------------------------------------------ bounds
\* Number of tasks handled over all requests of one run.
MaxTasks == 4
\* Largest "next N" count given to SET_ARCHIVE_MODE.
MaxCount == 2

\* The longest lists and texts given to the context assembler, and the
\* largest input token limit.
MaxMemories == 2
MaxHistory == 2
MaxWords == 2
MaxInputTokens == 24
\* The register calls made on a fresh IntentRegistry.
MaxRegistrations == 3
\* Requests that the server handles at the same time.
MaxRequests == 3

\* ------------------------------------------------------------ Python values
\* Optional[x]: None is the empty tuple, a value x is <<x>>.
None == <<>>
Some(x) == <<x>>

\* --------------------------------------------------------------- str methods
\* Strings that are normalised are sequences of one-character strings, so
\* that lower() and strip() are computed and not assumed.
LowerChar(c) ==
    CASE c = "E" -> "e"
      [] c = "U" -> "u"
      [] c = "S" -> "s"
      [] c = "H" -> "h"
      [] c = "A" -> "a"
      [] c = "R" -> "r"
      [] c = "C" -> "c"
      [] c = "I" -> "i"
      [] c = "V" -> "v"
      [] OTHER -> c

lower(s) == [i \in 1..Len(s) |-> LowerChar(s[i])]

RECURSIVE lstrip(_)
lstrip(s) == IF s # <<>> /\ Head(s) = " " THEN lstrip(Tail(s)) ELSE s

RECURSIVE rstrip(_)
rstrip(s) == IF s # <<>> /\ s[Len(s)] = " " THEN rstrip(SubSeq(s, 1, Len(s) - 1)) ELSE s

strip(s) == rstrip(lstrip(s))

\* word in s, for two strings.
Contains(s, word) ==
    \E i \in 1..(Len(s) - Len(word) + 1) : SubSeq(s, i, i + Len(word) - 1) = word

\* Field names as the classifier may spell them.
Euri == <<"E", "u">>
EuriSpaced == <<" ", "e", "U", " ">>
Sharon == <<"s", "h">>
SharonUpper == <<"S", "H", " ">>

\* --------------------------------------------------------------- CodexEntry
RESTATE_TYPE == "relational_state"
CLOSED_FIELDS_KEY == "closed_fields"

\* A row of the CodexEntry table; meta.field is Optional, meta.closed a bool.
CodexEntry(type, tags, field, closed, archived) ==
    [type |-> type, tags |-> tags, field |-> field, closed |-> closed,
     archived |-> archived]

\* relational_state.close_relational_field: the row it stores.
ClosedFieldEntry(field) ==
    CodexEntry(RESTATE_TYPE, {CLOSED_FIELDS_KEY}, Some(field), TRUE, FALSE)

\* relational_state.reopen_relational_field: the row it stores.
ReopenedFieldEntry(field) ==
    CodexEntry(RESTATE_TYPE, {CLOSED_FIELDS_KEY}, Some(field), FALSE, FALSE)

\* relational_state.get_closed_fields over the table cx: every row of the type
\* and tag adds its normalised field to `closed` or to `reopened`; the result
\* is closed - reopened.
ClosedSet(cx) ==
    {lower(strip(cx[i].field[1])) : i \in
        {j \in 1..Len(cx) : /\ cx[j].type = RESTATE_TYPE
                            /\ CLOSED_FIELDS_KEY \in cx[j].tags
                            /\ cx[j].field # None
                            /\ cx[j].closed}}

\* The reopened names compared as they were typed.
ReopenedSet_Raw(cx) ==
    {cx[i].field[1] : i \in
        {j \in 1..Len(cx) : /\ cx[j].type = RESTATE_TYPE
                            /\ CLOSED_FIELDS_KEY \in cx[j].tags
                            /\ cx[j].field # None
                            /\ ~cx[j].closed}}

ReopenedSet(cx) ==
    {lower(strip(cx[i].field[1])) : i \in
        {j \in 1..Len(cx) : /\ cx[j].type = RESTATE_TYPE
                            /\ CLOSED_FIELDS_KEY \in cx[j].tags
                            /\ cx[j].field # None
                            /\ ~cx[j].closed}}

get_closed_fields(cx) == ClosedSet(cx) \ ReopenedSet(cx)

\* ------------------------------------------------------------ ProtocolEvent
ProtocolEvent(event_type, active) ==
    [event_type |-> event_type, active |-> active, details |-> None]

\* A directive event: its details hold the directive_content.
DirectiveEvent(directive_content) ==
    [event_type |-> "directive", active |-> TRUE, details |-> Some(directive_content)]

\* protocol.create_protocol_event: append a row.
create_protocol_event(ev, event_type, active) ==
    Append(ev, ProtocolEvent(event_type, active))

\* protocol.get_active_protocol_event: the id (row number) of the most recent
\* active event of the type, 0 when there is none.
get_active_protocol_event(ev, event_type) ==
    LET act == {i \in 1..Len(ev) : ev[i].event_type = event_type /\ ev[i].active}
    IN IF act = {} THEN 0 ELSE CHOOSE i \in act : \A j \in act : j <= i

\* A deactivation that leaves the row active.
deactivate_protocol_event_Kept(ev, id) == ev

\* protocol.deactivate_protocol_event: clear the active flag of row id.
deactivate_protocol_event(ev, id) ==
    [i \in 1..Len(ev) |-> IF i = id THEN [ev[i] EXCEPT !.active = FALSE] ELSE ev[i]]

ActiveEvents(ev, event_type) ==
    {i \in 1..Len(ev) : ev[i].event_type = event_type /\ ev[i].active}

\* ---------------------------------------------------------- store and process
\* The persistent tables and the class-level state of ArchiveService, as one
\* record that the operations below take and return.
Store(cx, ev, count, xids, xtags) ==
    [codex |-> cx, events |-> ev, archive_mode_count |-> count,
     archive_mode_except_ids |-> xids, archive_mode_except_tags |-> xtags]

EmptyStore == Store(<<>>, <<>>, None, None, None)

\* ----------------------------------------------------------- ArchiveService
\* ArchiveService.activate_archive_mode: set the class state, then log an
\* active archive_mode event.
activate_archive_mode(st, count, except_tags) ==
    [st EXCEPT !.archive_mode_count = count,
               !.archive_mode_except_ids = Some({}),
               !.archive_mode_except_tags = Some(except_tags),
               !.events = create_protocol_event(st.events, "archive_mode", TRUE)]

\* ArchiveService.deactivate_archive_mode(db) with a session: deactivate the
\* most recent active archive_mode event, then clear the class state.
deactivate_archive_mode(st) ==
    LET id == get_active_protocol_event(st.events, "archive_mode")
    IN [st EXCEPT !.events = IF id # 0 THEN deactivate_protocol_event(st.events, id)
                             ELSE st.events,
                  !.archive_mode_count = None,
                  !.archive_mode_except_ids = None,
                  !.archive_mode_except_tags = None]

\* ArchiveService.deactivate_archive_mode(None), the call made by
\* should_archive_on_create: get_active_protocol_event(None, ...) evaluates
\* None.query and raises AttributeError before any state is touched.
deactivate_archive_mode_without_session(st) ==
    [raised |-> TRUE, st |-> st]

\* A variant that takes one from the count before it looks at the exclusions.
should_archive_on_create_CountFirst(st, tags) ==
    IF st.archive_mode_count # None /\ st.archive_mode_count[1] > 0
    THEN LET dec == [st EXCEPT !.archive_mode_count = Some(@[1] - 1)]
         IN IF /\ tags # {}
               /\ st.archive_mode_except_tags # None
               /\ st.archive_mode_except_tags[1] \cap tags # {}
            THEN [ret |-> FALSE, raised |-> FALSE, st |-> dec]
            ELSE IF dec.archive_mode_count[1] = 0
            THEN [ret |-> FALSE, raised |-> TRUE, st |-> dec]
            ELSE [ret |-> TRUE, raised |-> FALSE, st |-> dec]
    ELSE [ret |-> FALSE, raised |-> FALSE, st |-> st]

\* A variant for which an activation without a count archives every creation.
should_archive_on_create_Unlimited(st, tags) ==
    IF st.archive_mode_count = None
    THEN [ret |-> st.archive_mode_except_ids # None, raised |-> FALSE, st |-> st]
    ELSE IF st.archive_mode_count[1] > 0
    THEN LET dec == [st EXCEPT !.archive_mode_count = Some(@[1] - 1)]
         IN IF dec.archive_mode_count[1] = 0
            THEN [ret |-> FALSE, raised |-> TRUE, st |-> dec]
            ELSE [ret |-> TRUE, raised |-> FALSE, st |-> dec]
    ELSE [ret |-> FALSE, raised |-> FALSE, st |-> st]

\* A variant that archives while a count is set without taking from it.
should_archive_on_create_Free(st, tags) ==
    IF st.archive_mode_count # None /\ st.archive_mode_count[1] > 0
    THEN [ret |-> TRUE, raised |-> FALSE, st |-> st]
    ELSE [ret |-> FALSE, raised |-> FALSE, st |-> st]

\* ArchiveService.should_archive_on_create(tags=...): [ret, raised, st].
should_archive_on_create(st, tags) ==
    IF st.archive_mode_count # None /\ st.archive_mode_count[1] > 0
    THEN IF /\ tags # {}
            /\ st.archive_mode_except_tags # None
            /\ st.archive_mode_except_tags[1] \cap tags # {}
         THEN [ret |-> FALSE, raised |-> FALSE, st |-> st]
         ELSE LET dec == [st EXCEPT !.archive_mode_count = Some(@[1] - 1)]
              IN IF dec.archive_mode_count[1] = 0
                 THEN LET d == deactivate_archive_mode_without_session(dec)
                      IN [ret |-> ~d.raised, raised |-> d.raised, st |-> d.st]
                 ELSE [ret |-> TRUE, raised |-> FALSE, st |-> dec]
    ELSE [ret |-> FALSE, raised |-> FALSE, st |-> st]

\* ------------------------------------------------------------------- tasks
\* One element of the classifier's task list. Fields that an intent does not
\* use hold their defaults. extracted_entities is a tuple of [text, is_dict]:
\* the classifier returns an entity as a dict or as a bare string.
Task(intent, command_name, activate, count, except_tags, field, entities, tags, content) ==
    [intent |-> intent, command_name |-> command_name, activate |-> activate,
     count |-> count, except_tags |-> except_tags, field |-> field,
     extracted_entities |-> entities, memory_tags |-> tags,
     memory_content |-> content, mode |-> None]

Entity(text) == [text |-> text, is_dict |-> TRUE]
StringEntity(text) == [text |-> text, is_dict |-> FALSE]

MemoryTask(entities, tags, content) ==
    Task(Some("MEMORY"), None, TRUE, None, {}, None, entities, tags, content)
CommandTask(name, activate, count, except_tags, field) ==
    Task(Some("COMMAND"), name, activate, count, except_tags, field, <<>>, {}, "")
QueryTask == Task(Some("QUERY"), None, TRUE, None, {}, None, <<>>, {}, "")
OtherTask(intent) == Task(intent, None, TRUE, None, {}, None, <<>>, {}, "")
\* A COMMAND task named SET_RESPONSE_MODE with command_params["mode"].
ResponseModeTask(mode) ==
    [CommandTask(Some("SET_RESPONSE_MODE"), TRUE, None, {}, None) EXCEPT !.mode = Some(mode)]

\* The word the command handler and the orchestrator look for.
ArchiveWord == <<"a", "r", "c", "h", "i", "v", "e">>

\* A variant in which the word is looked for in the text as typed.
QueryText_CaseSensitive(text) ==
    [has_archive |-> Contains(text, ArchiveWord),
     blank |-> strip(text) = <<>>,
     text |-> text]

\* A user query: its text, whether the text lower-cased contains "archive"
\* ("archive" in user_query.lower()), and whether it is empty after strip().
QueryText(text) ==
    [has_archive |-> Contains(lower(text), ArchiveWord),
     blank |-> strip(text) = <<>>,
     text |-> text]

\* A user query with the given two properties.
UserQuery(has_archive, blank) ==
    QueryText(IF has_archive THEN (IF blank THEN <<>> ELSE ArchiveWord)
              ELSE IF blank THEN <<" ">> ELSE <<"h", "i">>)

\* ----------------------------------------------------------- handler results
\* What a handler call ends in: a returned 3-tuple or a raised exception.
Returned(response, linked, error) ==
    [kind |-> "returned", response |-> response, linked |-> linked,
     error |-> error, exc |-> ""]
Raised(exc) ==
    [kind |-> "raised", response |-> "", linked |-> None, error |-> None,
     exc |-> exc]
NoRet == [kind |-> "none", response |-> "", linked |-> None, error |-> None, exc |-> ""]

\* A handler's effect: the store after it, whether it logged a protocol block
\* in the context snapshot, and how the call ended.
Effect(st, blocked, ret) == [st |-> st, blocked |-> blocked, ret |-> ret]

\* The text a handler binds to companion_response_content only when silence
\* is off: under silence the name stays unbound and the return statement
\* raises UnboundLocalError.
ReturnUnlessSilent(silence, response, linked, error) ==
    IF silence THEN Raised("UnboundLocalError") ELSE Returned(response, linked, error)

SealedMessage == "The field is sealed."

\* ----------------------------------------------------- handle_memory_intent
\* Indices of the entities whose text is non-empty (referenced_fields).
ReferencedFields(task) ==
    {i \in 1..Len(task.extracted_entities) : task.extracted_entities[i].text # <<>>}

\* The first referenced field that is closed, 0 when none is: the handler
\* compares field.lower().strip() with the normalised closed fields.
FirstClosedField(task, cx) ==
    LET closed_fields == {strip(lower(f)) : f \in get_closed_fields(cx)}
        hits == {i \in ReferencedFields(task) :
                    strip(lower(task.extracted_entities[i].text)) \in closed_fields}
    IN IF hits = {} THEN 0 ELSE CHOOSE i \in hits : \A j \in hits : i <= j

\* mem_content after the fallback to the user query: "" when it is empty or
\* whitespace only.
MemContentPresent(task, uq) ==
    IF task.memory_content = "" /\ task.intent = Some("MEMORY")
    THEN ~uq.blank
    ELSE task.memory_content \notin {"", " "}

\* handle_memory_intent. embedding is what generate_embedding does ("ok",
\* "empty" or "raise"), store_ok whether create_codex_entry succeeds.
handle_memory_intent(st, task, uq, silence, embedding, store_ok) ==
    IF \E i \in 1..Len(task.extracted_entities) : ~task.extracted_entities[i].is_dict
    THEN \* e.get("text") on a str
         Effect(st, FALSE, Raised("AttributeError"))
    ELSE IF FirstClosedField(task, st.codex) # 0
    THEN Effect(st, TRUE,
                Returned(SealedMessage, None,
                         Some("Attempted to create memory for closed field.")))
    ELSE IF ~MemContentPresent(task, uq)
    THEN Effect(st, FALSE,
                ReturnUnlessSilent(silence, "There was no content to save.", None,
                                   Some("Memory content was empty.")))
    ELSE IF embedding = "raise"
    THEN Effect(st, FALSE,
                ReturnUnlessSilent(silence, "An unexpected internal error occurred.",
                                   None, Some("Unexpected error during memory creation.")))
    ELSE IF embedding = "empty"
    THEN Effect(st, FALSE,
                ReturnUnlessSilent(silence, "An internal error occurred during embedding generation.",
                                   None, Some("Embedding generation failed.")))
    ELSE LET sa == should_archive_on_create(st, task.memory_tags)
         IN IF sa.raised
            THEN Effect(sa.st, FALSE,
                        ReturnUnlessSilent(silence, "An unexpected internal error occurred.",
                                           None, Some("Unexpected error during memory creation.")))
            ELSE IF ~store_ok
            THEN Effect(sa.st, FALSE,
                        ReturnUnlessSilent(silence, "A service error occurred.",
                                           None, Some("Service error during memory creation.")))
            ELSE LET entry == CodexEntry("observation_agent", task.memory_tags, None,
                                         FALSE, sa.ret)
                     stored == [sa.st EXCEPT !.codex = Append(@, entry)]
                 IN Effect(stored, FALSE,
                           ReturnUnlessSilent(silence,
                                IF sa.ret THEN "This memory is consigned to the vault."
                                          ELSE "Memory stored.",
                                Some(Len(stored.codex)), None))

\* ---------------------------------------------------- handle_command_intent
COMMAND_REGISTRY ==
    {"SET_SILENCE_MODE", "SET_ARCHIVE_MODE", "ARCHIVE_BY_ID", "ARCHIVE_BY_TAG",
     "ARCHIVE_ALL_EXCEPT", "CLOSE_RELATIONAL_FIELD", "REOPEN_RELATIONAL_FIELD",
     "SET_ACTIVE_ARCHETYPE"}

\* What a command function ends in: its message, or a raised exception
\* ("CommandExecutionError" or another one).
CommandResult(st, message, exc) == [st |-> st, message |-> message, exc |-> exc]

\* _set_silence_mode; store_ok is whether create_protocol_event succeeds.  The
\* deactivation of the event found active is committed by
\* deactivate_protocol_event before the new event is created, and the
\* rollback of a failed create undoes the insert only.
set_silence_mode(st, activate, store_ok) ==
    LET active_event == get_active_protocol_event(st.events, "silence_mode")
        deactivated == IF active_event # 0
                       THEN deactivate_protocol_event(st.events, active_event)
                       ELSE st.events
    IN IF ~store_ok
       THEN CommandResult([st EXCEPT !.events = deactivated], "", "DatabaseOperationError")
       ELSE IF activate
       THEN CommandResult(
                [st EXCEPT !.events = create_protocol_event(deactivated, "silence_mode", TRUE)],
                "I will hold silence until you call for me.", "")
       ELSE CommandResult(
                [st EXCEPT !.events = create_protocol_event(deactivated, "silence_mode", FALSE)],
                "I will return to presence when you are ready.", "")

\* _set_archive_mode.
set_archive_mode(st, activate, count, except_tags) ==
    IF activate
    THEN CommandResult(activate_archive_mode(st, count, except_tags),
                       "The vault is sealed.", "")
    ELSE CommandResult(deactivate_archive_mode(st), "The vault reopens.", "")

\* _close_relational_field; store_ok is whether create_codex_entry succeeds.
close_relational_field(st, field, store_ok) ==
    IF field = None \/ field = Some(<<>>)
    THEN CommandResult(st, "", "CommandExecutionError")
    ELSE IF ~store_ok
    THEN CommandResult(st, "", "DocumentProcessingError")
    ELSE CommandResult([st EXCEPT !.codex = Append(@, ClosedFieldEntry(field[1]))],
                       "The field is now sealed.", "")

\* _reopen_relational_field.
reopen_relational_field(st, field, store_ok) ==
    IF field = None \/ field = Some(<<>>)
    THEN CommandResult(st, "", "CommandExecutionError")
    ELSE IF ~store_ok
    THEN CommandResult(st, "", "DocumentProcessingError")
    ELSE CommandResult([st EXCEPT !.codex = Append(@, ReopenedFieldEntry(field[1]))],
                       "The field is now open for new memories.", "")

\* What the LLM call of the directive synthesis may do: return a text,
\* return an empty text, or raise.
DirectiveOutcomes == {"answer", "empty", "error"}

\* A variant in which the directive is dropped.
store_directive_protocol_event_Dropped(st, llm) == st

\* _store_directive_protocol_event after the await of the LLM: previous is the
\* event that list_protocol_events returned first before the await (0: none).
\* An event found is updated in place, otherwise a new one is created.
write_directive(st, previous, llm) ==
    LET event == DirectiveEvent(IF llm = "empty" THEN "" ELSE "synthesized directive")
    IN IF previous # 0
       THEN [st EXCEPT !.events[previous] = event]
       ELSE [st EXCEPT !.events = Append(@, event)]

\* _store_directive_protocol_event after its LLM call returned a text, or
\* "" when the answer was empty: the most recent active directive event
\* gets the synthesized directive in place, or a new active directive event
\* is created with it.
store_directive_protocol_event(st, llm) ==
    write_directive(st, get_active_protocol_event(st.events, "directive"), llm)

\* The SET_RESPONSE_MODE branch for one of the three modes: the active
\* tone_mode event gets the mode in place, or a new active tone_mode event
\* is created.
set_response_mode(st, mode) ==
    LET previous == get_active_protocol_event(st.events, "tone_mode")
        event == [event_type |-> "tone_mode", active |-> TRUE, details |-> Some(mode)]
    IN IF previous # 0
       THEN [st EXCEPT !.events[previous] = event]
       ELSE [st EXCEPT !.events = Append(@, event)]

\* The command name the handler runs: SET_SILENCE_MODE becomes
\* SET_ARCHIVE_MODE when the user query contains "archive".
EffectiveCommandName(task, uq) ==
    IF task.command_name = Some("SET_SILENCE_MODE") /\ uq.has_archive
    THEN Some("SET_ARCHIVE_MODE")
    ELSE task.command_name

\* handle_command_intent. store_ok is whether create_codex_entry succeeds,
\* llm what the LLM call of the directive synthesis does ("answer", "empty"
\* or "error", an exception the handler does not catch).
handle_command_intent(st, task, uq, silence, store_ok, llm) ==
    LET command_name == EffectiveCommandName(task, uq)
    IN IF command_name = Some("SET_RESPONSE_MODE")
       THEN IF task.mode # None /\ task.mode[1] \in {"Architect", "Companion", "Director"}
            THEN Effect(set_response_mode(st, task.mode[1]), FALSE,
                        Returned("Mode switched.", None, None))
            ELSE Effect(st, FALSE, Returned("Invalid mode.", None, None))
       ELSE IF command_name = None \/ command_name[1] \notin COMMAND_REGISTRY
       THEN IF llm = "error"
            THEN Effect(st, FALSE, Raised("HTTPStatusError"))
            ELSE Effect(store_directive_protocol_event(st, llm), FALSE,
                        Returned("Understood. I'll act on this when the time comes.",
                                 None, None))
       ELSE LET r == CASE command_name[1] = "SET_SILENCE_MODE" ->
                            set_silence_mode(st, task.activate, store_ok)
                       [] command_name[1] = "SET_ARCHIVE_MODE" ->
                            set_archive_mode(st, task.activate, task.count, task.except_tags)
                       [] command_name[1] = "CLOSE_RELATIONAL_FIELD" ->
                            close_relational_field(st, task.field, store_ok)
                       [] command_name[1] = "REOPEN_RELATIONAL_FIELD" ->
                            reopen_relational_field(st, task.field, store_ok)
                       [] OTHER -> CommandResult(st, "", "CommandExecutionError")
            IN IF r.exc = "CommandExecutionError"
               THEN Effect(r.st, FALSE,
                           Returned("The command could not be completed.", None,
                                    Some("CommandExecutionError")))
               ELSE IF r.exc # ""
               THEN Effect(r.st, FALSE,
                           Returned("A critical error interrupted the command.", None,
                                    Some("Unexpected error in command.")))
               ELSE IF /\ command_name[1] = "SET_SILENCE_MODE"
                       /\ task.activate
                       /\ silence
               THEN Effect(r.st, FALSE, Returned("", None, None))
               ELSE Effect(r.st, FALSE, Returned(r.message, None, None))

\* ------------------------------------------------------ handle_query_intent
\* handle_query_intent; answer is what the RAG pipeline ends in: "answer",
\* "empty" (the LLM returned nothing), "too_long" (the assembled prompt is
\* over VLLM_MAX_INPUT_TOKENS: the InputTooLongError raised inside the try is
\* caught by its "except Exception") or "error" (another exception caught by
\* the handler).
handle_query_intent(st, task, silence, answer) ==
    IF \E i \in 1..Len(task.extracted_entities) : ~task.extracted_entities[i].is_dict
    THEN Effect(st, FALSE, Raised("AttributeError"))
    ELSE IF silence
    THEN Effect(st, FALSE, Returned("", None, None))
    ELSE IF answer = "answer"
    THEN Effect(st, FALSE, Returned("Generated answer.", None, None))
    ELSE IF answer = "empty"
    THEN Effect(st, FALSE,
                Returned("I am unable to provide an answer at this time.", None,
                         Some("LLM returned empty answer.")))
    ELSE IF answer = "too_long"
    THEN Effect(st, FALSE,
                Returned("A critical error prevented me from answering your query.",
                         None,
                         Some("Unexpected critical error during RAG/QUERY: Context cannot be reduced below input token limit.")))
    ELSE Effect(st, FALSE,
                Returned("A critical error prevented me from answering your query.",
                         None, Some("Unexpected critical error during RAG/QUERY.")))

\* ---------------------------------------------------- handle_unknown_intent
handle_unknown_intent(st, silence) ==
    Effect(st, FALSE,
           Returned(IF silence THEN "" ELSE "I'm not sure how to handle that type of request.",
                    None, Some("Unhandled intent was processed by the fallback handler.")))

\* ----------------------------------------------------------- IntentRegistry
\* IntentRegistry.__init__: the fallback handler under "UNKNOWN".
NewRegistry == [n \in {"UNKNOWN"} |-> "handle_unknown_intent"]

\* A registration that keeps the handler a name already has.
register_KeepFirst(registry, intent_name, handler_func) ==
    IF intent_name \in DOMAIN registry
    THEN registry
    ELSE [n \in DOMAIN registry \cup {intent_name} |->
            IF n = intent_name THEN handler_func ELSE registry[n]]

\* IntentRegistry.register(intent_name)(handler_func):
\* self._registry[intent_name] = handler_func.
register(registry, intent_name, handler_func) ==
    [n \in DOMAIN registry \cup {intent_name} |->
        IF n = intent_name THEN handler_func ELSE registry[n]]

\* IntentRegistry.get_handler:
\* self._registry.get(intent_name, self._registry["UNKNOWN"]).
registry_get(registry, intent_name) ==
    IF intent_name \in DOMAIN registry THEN registry[intent_name] ELSE registry["UNKNOWN"]

\* intent_handler_registry after the handler modules are imported: the
\* decorators of query_handler, memory_handler and command_handler, in the
\* order of the imports.
ImportCalls ==
    <<<<"QUERY", "handle_query_intent">>, <<"COMPLEX_TASK", "handle_query_intent">>,
      <<"MEMORY", "handle_memory_intent">>, <<"FORCED_ARCHIVE_MEMORY", "handle_memory_intent">>,
      <<"COMMAND", "handle_command_intent">>>>

Registry ==
    LET RECURSIVE after(_)
        after(k) == IF k = 0 THEN NewRegistry
                    ELSE register(after(k - 1), ImportCalls[k][1], ImportCalls[k][2])
    IN after(Len(ImportCalls))

\* intent_handler_registry.get_handler.
get_handler(intent_name) == registry_get(Registry, intent_name)

\* An IntentRegistry with the register calls made on it so far (name and
\* handler, in order) and the result of the last get_handler.
RegistryState(registry, calls, looked_up) ==
    [registry |-> registry, calls |-> calls, looked_up |-> looked_up]

\* The application's registry once the handler modules are imported.
ImportedRegistry == RegistryState(Registry, ImportCalls, None)

\* ================================================================== state
VARIABLES
    store,              \* CodexEntry and ProtocolEvent tables, ArchiveService class state
    cfg,                \* what the environment of this run may produce (fixed by Init)
    budget,             \* tasks the classifier may still produce in this run
    pc,                 \* where the request is: idle, begin, dispatching, handler, collect, aggregate, done
    user_query,         \* the request's user query
    ntasks,             \* len(self.tasks)
    idx,                \* the loop index of execute_plan, from 1
    tasks,              \* self.tasks[1..idx] as read (and patched) so far
    call,               \* the handler the orchestrator is awaiting, "" when none
    ret,                \* what the awaited handler ended in
    context_snapshot,   \* the request's context_snapshot: the keys the code reads
    user_responses,     \* execute_plan's user_responses
    linked_codex_ids,   \* execute_plan's linked_codex_ids
    llm_call_errors,    \* self.llm_call_errors
    result,             \* what execute_plan ended in
    dispatched,         \* history: the loop indices whose handler was invoked, in order
    ctx,                \* an LlmContextManager and the call of get_answer_messages on it
    api,                \* what agent_interaction answers the request with
    reg,                \* an IntentRegistry, the register calls made on it and the last lookup
    conc                \* requests handled concurrently: each one's task and its position between awaits

vars == <<store, cfg, budget, pc, user_query, ntasks, idx, tasks, call, ret,
          context_snapshot, user_responses, linked_codex_ids, llm_call_errors,
          result, dispatched, ctx, api, reg, conc>>

\* What execute_plan ends in: a returned 3-tuple (the response lines, the
\* linked id, the "; "-joined errors as the tuple of its parts) or an
\* exception that leaves it.
PlanReturned(response, linked, errors) ==
    [kind |-> "returned", response |-> response, linked |-> linked, errors |-> errors]
PlanRaised == [kind |-> "raised", response |-> <<>>, linked |-> None, errors |-> None]
NoResult == [kind |-> "none", response |-> <<>>, linked |-> None, errors |-> None]

\* The environment of a run: the tasks the classifier may emit, the user
\* queries, and what the embedding service, the codex store, the answer
\* pipeline and the orchestrator's own intent classification may do.
Environment(vocab, queries, embeddings, stores, answers, classify) ==
    [vocab |-> vocab, queries |-> queries, embeddings |-> embeddings,
     stores |-> stores, answers |-> answers, classify |-> classify]

\* A request handled concurrently with others: where it is between its awaits
\* (idle: not yet arrived), its task, the directive event it read and the
\* archive decision it took.
Request(rpc, task, previous, should_archive) ==
    [pc |-> rpc, task |-> task, previous |-> previous, should_archive |-> should_archive]

\* No request has arrived.
NoRequests ==
    [r \in 1..MaxRequests |-> Request("idle", MemoryTask(<<>>, {}, ""), 0, FALSE)]

\* The request variables between requests.
InitRequest ==
    /\ pc = "idle"
    /\ user_query = UserQuery(FALSE, FALSE)
    /\ ntasks = 0
    /\ idx = 0
    /\ tasks = <<>>
    /\ call = ""
    /\ ret = NoRet
    /\ context_snapshot = [initial_silence_state |-> FALSE, protocol_blocked_memory |-> FALSE]
    /\ user_responses = <<>>
    /\ linked_codex_ids = <<>>
    /\ llm_call_errors = <<>>
    /\ result = NoResult
    /\ dispatched = <<>>

\* _handle_silence_protocol: silence is in effect when an active
\* silence_mode event exists (the command never sets active_until).
handle_silence_protocol(st) == get_active_protocol_event(st.events, "silence_mode") # 0

\* agent_interaction up to the construction of the orchestrator: reads the
\* silence state into a fresh context snapshot and takes the task list.
StartRequest ==
    /\ pc = "idle"
    /\ budget > 0
    /\ \E n \in 1..budget, uq \in cfg.queries :
        /\ ntasks' = n
        /\ budget' = budget - n
        /\ user_query' = uq
    /\ context_snapshot' = [initial_silence_state |-> handle_silence_protocol(store),
                            protocol_blocked_memory |-> FALSE]
    /\ idx' = 1
    /\ tasks' = <<>>
    /\ call' = ""
    /\ ret' = NoRet
    /\ user_responses' = <<>>
    /\ linked_codex_ids' = <<>>
    /\ llm_call_errors' = <<>>
    /\ result' = NoResult
    /\ dispatched' = <<>>
    /\ pc' = "begin"
    /\ UNCHANGED <<conc, api, reg, ctx, store, cfg>>

\* A variant in which the exception is not caught and leaves execute_plan.
ExceptClause_Propagates(exc, errors) ==
    [kind |-> "raised", response |-> <<>>, linked |-> None, errors |-> None]

\* The except clauses of execute_plan: the error is appended to
\* llm_call_errors and a generic text is returned with no linked id.
ExceptClause(exc, errors) ==
    IF exc = "TaskOrchestrationError"
    THEN PlanReturned(<<"I encountered an issue while processing your request.">>,
                      None, Some(Append(errors, "TaskOrchestrationError")))
    ELSE PlanReturned(<<"A critical and unexpected error occurred.">>,
                      None, Some(Append(errors, "An unexpected critical error occurred in the task orchestrator.")))

\* execute_plan before the loop: the intent classification of the user query
\* (an LLM call that may raise).
BeginPlan ==
    /\ pc = "begin"
    /\ \E outcome \in cfg.classify :
        IF outcome = "raise"
        THEN /\ ret' = Raised("Exception")
             /\ result' = ExceptClause("Exception", llm_call_errors)
             /\ pc' = "done"
        ELSE /\ pc' = "dispatching"
             /\ UNCHANGED <<ret, result>>
    /\ UNCHANGED <<conc, api, reg, ctx, store, cfg, budget, user_query, ntasks, idx, tasks, call,
                   context_snapshot, user_responses, linked_codex_ids,
                   llm_call_errors, dispatched>>

\* The task as the loop leaves it in self.tasks[idx]: a COMMAND named
\* SET_SILENCE_MODE is renamed when the user query contains "archive".
PatchTask(task, uq) ==
    IF /\ task.intent = Some("COMMAND")
       /\ task.command_name = Some("SET_SILENCE_MODE")
       /\ uq.has_archive
    THEN [task EXCEPT !.command_name = Some("SET_ARCHIVE_MODE")]
    ELSE task

\* One iteration of the loop up to the handler call: read self.tasks[idx],
\* raise when it has no intent, patch it, look the handler up and invoke it.
Dispatch ==
    /\ pc = "dispatching"
    /\ call = ""
    /\ idx <= ntasks
    /\ \E task \in cfg.vocab :
        IF task.intent = None
        THEN /\ tasks' = Append(tasks, task)
             /\ ret' = Raised("TaskOrchestrationError")
             /\ result' = ExceptClause("TaskOrchestrationError", llm_call_errors)
             /\ pc' = "done"
             /\ UNCHANGED <<call, dispatched>>
        ELSE /\ tasks' = Append(tasks, PatchTask(task, user_query))
             /\ call' = get_handler(task.intent[1])
             /\ dispatched' = Append(dispatched, idx)
             /\ pc' = "handler"
             /\ UNCHANGED <<ret, result>>
    /\ UNCHANGED <<conc, api, reg, ctx, store, cfg, budget, user_query, ntasks, idx, context_snapshot,
                   user_responses, linked_codex_ids, llm_call_errors>>

\* A variant in which the silence state is read again from the log for each
\* task.
silence_effectively_active_Reread(snapshot, st) == handle_silence_protocol(st)

\* The silence_effectively_active argument of the handler call in
\* execute_plan: self.context_snapshot.get("initial_silence_state", False).
silence_effectively_active(snapshot, st) == snapshot.initial_silence_state

\* A handler's effect on the state: the store, the protocol block it logged
\* in the context snapshot, and the outcome handed back to the orchestrator.
HandlerReturns(e) ==
    /\ store' = e.st
    /\ context_snapshot' = [context_snapshot EXCEPT !.protocol_blocked_memory = @ \/ e.blocked]
    /\ ret' = e.ret
    /\ call' = ""
    /\ pc' = "collect"
    /\ UNCHANGED <<conc, api, reg, ctx, cfg, budget, user_query, ntasks, idx, tasks, user_responses,
                   linked_codex_ids, llm_call_errors, result, dispatched>>

HandleMemory ==
    /\ pc = "handler"
    /\ call = "handle_memory_intent"
    /\ \E embedding \in cfg.embeddings, store_ok \in cfg.stores :
        HandlerReturns(handle_memory_intent(store, tasks[idx], user_query,
                                            silence_effectively_active(context_snapshot, store),
                                            embedding, store_ok))

HandleCommand ==
    /\ pc = "handler"
    /\ call = "handle_command_intent"
    /\ \E store_ok \in cfg.stores, llm \in cfg.answers \cap DirectiveOutcomes :
        HandlerReturns(handle_command_intent(store, tasks[idx], user_query,
                                             silence_effectively_active(context_snapshot, store),
                                             store_ok, llm))

HandleQuery ==
    /\ pc = "handler"
    /\ call = "handle_query_intent"
    /\ \E answer \in cfg.answers :
        HandlerReturns(handle_query_intent(store, tasks[idx],
                                           silence_effectively_active(context_snapshot, store),
                                           answer))

HandleUnknown ==
    /\ pc = "handler"
    /\ call = "handle_unknown_intent"
    /\ HandlerReturns(handle_unknown_intent(store, silence_effectively_active(context_snapshot, store)))

\* A variant in which the loop does not advance.
NextIndex_Repeat(i) == i

\* enumerate(self.tasks): the index after i.
NextIndex(i) == i + 1

\* A variant in which the test looks for a snapshot key that no handler sets.
ProtocolBlockDetected_WrongKey(r, snapshot) ==
    /\ r.response # ""
    /\ r.linked = None
    /\ FALSE

\* A variant in which every text returned without a linked id ends the plan.
ProtocolBlockDetected_NoFlag(r, snapshot) ==
    /\ r.response # ""
    /\ r.linked = None

\* The protocol-block test of execute_plan on a handler's returned tuple.
ProtocolBlockDetected(r, snapshot) ==
    /\ r.response # ""
    /\ r.linked = None
    /\ snapshot.protocol_blocked_memory

\* The rest of the iteration after the handler call: an exception goes to the
\* except clause, a protocol block returns at once, anything else is
\* accumulated and the loop moves on.
Collect ==
    /\ pc = "collect"
    /\ IF ret.kind = "raised"
       THEN /\ result' = ExceptClause(ret.exc, llm_call_errors)
            /\ pc' = "done"
            /\ UNCHANGED <<idx, ret, user_responses, linked_codex_ids, llm_call_errors>>
       ELSE IF ProtocolBlockDetected(ret, context_snapshot)
       THEN /\ result' = PlanReturned(<<ret.response>>, None,
                                      IF ret.error = None THEN None ELSE Some(<<ret.error[1]>>))
            /\ pc' = "done"
            /\ UNCHANGED <<idx, ret, user_responses, linked_codex_ids, llm_call_errors>>
       ELSE /\ user_responses' = IF ret.response # "" THEN Append(user_responses, ret.response)
                                 ELSE user_responses
            /\ linked_codex_ids' = IF ret.linked # None THEN Append(linked_codex_ids, ret.linked[1])
                                   ELSE linked_codex_ids
            /\ llm_call_errors' = IF ret.error # None THEN Append(llm_call_errors, ret.error[1])
                                  ELSE llm_call_errors
            /\ idx' = NextIndex(idx)
            /\ pc' = IF idx' > ntasks THEN "aggregate" ELSE "dispatching"
            /\ ret' = NoRet
            /\ UNCHANGED result
    /\ UNCHANGED <<conc, api, reg, ctx, store, cfg, budget, user_query, ntasks, tasks, call, context_snapshot,
                   dispatched>>

\* A variant in which the id of the last created memory is returned.
first_codex_id_Last(ids) == IF ids # <<>> THEN Some(ids[Len(ids)]) ELSE None

\* first_codex_id = linked_codex_ids[0] if linked_codex_ids else None.
first_codex_id(ids) == IF ids # <<>> THEN Some(ids[1]) ELSE None

\* execute_plan after the loop: join the errors, synthesize a confirmation
\* when a memory was created but no text was produced, return the first
\* linked id.
Aggregate ==
    /\ pc = "aggregate"
    /\ LET final_errors == IF llm_call_errors # <<>> THEN Some(llm_call_errors) ELSE None
           responses == IF user_responses = <<>> /\ linked_codex_ids # <<>>
                        THEN <<"Received, Michael. The requested item has been integrated.">>
                        ELSE user_responses
       IN result' = PlanReturned(responses, first_codex_id(linked_codex_ids), final_errors)
    /\ pc' = "done"
    /\ UNCHANGED <<conc, api, reg, ctx, store, cfg, budget, user_query, ntasks, idx, tasks, call, ret,
                   context_snapshot, user_responses, linked_codex_ids, llm_call_errors,
                   dispatched>>

\* What agent_interaction answers with: a saved chat history entry, or an
\* HTTP error.
ChatEntry(companion_response, linked_codex_entry, is_command) ==
    [kind |-> "chat_entry", companion_response |-> companion_response,
     linked_codex_entry |-> linked_codex_entry, is_command |-> is_command]
HttpError(status) ==
    [kind |-> status, companion_response |-> <<>>, linked_codex_entry |-> None,
     is_command |-> FALSE]
NoAnswer ==
    [kind |-> "none", companion_response |-> <<>>, linked_codex_entry |-> None,
     is_command |-> FALSE]

\* The shapes of the classifier's JSON that agent_interaction accepts: a
\* dict (with a "tasks" list, or a single task) and a bare list of tasks.
ClassificationFormats == {"dict", "list"}

\* is_command: some task of a dict-shaped classification has the intent
\* COMMAND; a list-shaped classification is not looked at. unread says
\* whether a task the plan never reached is a COMMAND.
IsCommand(format, read_tasks, unread) ==
    /\ format = "dict"
    /\ \/ \E k \in 1..Len(read_tasks) : read_tasks[k].intent = Some("COMMAND")
       \/ unread

\* agent_interaction after execute_plan: InputTooLongError leaving
\* execute_plan is answered with 422, any other exception with 500; else
\* the response is replaced by SILENCE_MODE_RESPONSE when silence is in
\* effect and the request holds no COMMAND, and the entry is saved (without
\* linked id for a protocol block).
Respond ==
    /\ pc = "done"
    /\ \E format \in ClassificationFormats,
          unread \in (IF Len(tasks) < ntasks THEN {FALSE, TRUE} ELSE {FALSE}) :
        api' = IF result.kind = "raised"
               THEN HttpError(IF ret.exc = "InputTooLongError" THEN "http_422" ELSE "http_500")
               ELSE LET is_command == IsCommand(format, tasks, unread)
                        response == IF context_snapshot.initial_silence_state /\ ~is_command
                                    THEN <<>>
                                    ELSE result.response
                    IN ChatEntry(response,
                                 IF context_snapshot.protocol_blocked_memory
                                 THEN None ELSE result.linked,
                                 is_command)
    /\ pc' = "responded"
    /\ UNCHANGED <<conc, store, cfg, budget, user_query, ntasks, idx, tasks, call, ret,
                   context_snapshot, user_responses, linked_codex_ids, llm_call_errors,
                   result, dispatched, ctx, reg>>

\* A restart of the server process between two requests: the class
\* attributes of ArchiveService are None again, the tables are kept.
Restart ==
    /\ pc = "idle"
    /\ store.archive_mode_except_ids # None
    /\ store' = [store EXCEPT !.archive_mode_count = None,
                              !.archive_mode_except_ids = None,
                              !.archive_mode_except_tags = None]
    /\ UNCHANGED <<conc, cfg, budget, pc, user_query, ntasks, idx, tasks, call, ret,
                   context_snapshot, user_responses, linked_codex_ids, llm_call_errors,
                   result, dispatched, ctx, api, reg>>

\* The request is over and the next one may start.
EndRequest ==
    /\ pc = "responded"
    /\ pc' = "idle"
    /\ api' = NoAnswer
    /\ result' = NoResult
    /\ tasks' = <<>>
    /\ dispatched' = <<>>
    /\ user_responses' = <<>>
    /\ linked_codex_ids' = <<>>
    /\ llm_call_errors' = <<>>
    /\ idx' = 0
    /\ ntasks' = 0
    /\ user_query' = UserQuery(FALSE, FALSE)
    /\ context_snapshot' = [initial_silence_state |-> FALSE, protocol_blocked_memory |-> FALSE]
    /\ ret' = NoRet
    /\ UNCHANGED <<conc, reg, ctx, store, cfg, budget, call>>

\* ------------------------------------------------------ context assembler
\* A text is modelled by its number of words. The tokenizer gives one token
\* per word and one per line break ("\n" and "\n\n" alike); the fallback
\* estimate counts the words only.
RECURSIVE SumWords(_)
SumWords(items) == IF items = <<>> THEN 0 ELSE Head(items) + SumWords(Tail(items))

\* "[Relevant Memories]:" and "[Recent Chat History]:".
MemoriesHeaderWords == 2
HistoryHeaderWords == 3

\* A section of the user content: header, "\n", the items joined by "\n",
\* and "\n\n".
Section(header_words, items) ==
    IF items = <<>>
    THEN [words |-> 0, breaks |-> 0]
    ELSE [words |-> header_words + SumWords(items), breaks |-> 1 + (Len(items) - 1) + 1]

\* user_content.strip(): the sections followed by the query; the "\n\n" that
\* ends the last section is stripped when no query follows it.
UserContent(memories, chat_history, user_query_words) ==
    LET m == Section(MemoriesHeaderWords, memories)
        h == Section(HistoryHeaderWords, chat_history)
        stripped == IF user_query_words = 0 /\ m.breaks + h.breaks > 0 THEN 1 ELSE 0
    IN [words |-> m.words + h.words + user_query_words,
        breaks |-> m.breaks + h.breaks - stripped]

Message(role, content) == [role |-> role, content |-> content]

\* temp_messages: the system message, when there is a system prompt, and the
\* user message, when the stripped user content is not empty.
TempMessages(system_prompt, memories, chat_history, user_query_words) ==
    LET content == UserContent(memories, chat_history, user_query_words)
    IN (IF system_prompt > 0
        THEN <<Message("system", [words |-> system_prompt, breaks |-> 0])>>
        ELSE <<>>)
       \o (IF content.words > 0 THEN <<Message("user", content)>> ELSE <<>>)

\* TokenCounter.count_messages on the tiktoken path: 4 tokens per message
\* and the encodings of the role and of the content.
MessageOverhead == 4
RoleTokens == 1

RECURSIVE count_messages(_)
count_messages(messages) ==
    IF messages = <<>>
    THEN 0
    ELSE MessageOverhead + RoleTokens
         + Head(messages).content.words + Head(messages).content.breaks
         + count_messages(Tail(messages))

\* The fallback of _get_token_count: the words of all contents // 0.75.
RECURSIVE ContentWords(_)
ContentWords(messages) ==
    IF messages = <<>>
    THEN 0
    ELSE Head(messages).content.words + ContentWords(Tail(messages))

word_estimate(messages) == (ContentWords(messages) * 4) \div 3

\* TokenCounter.count_messages on the vllm_api path: the tokens of the
\* contents joined by "\n", as the tokenizer service counts them, or
\* max(1, words // 0.75) when the call to the service failed.
RECURSIVE ContentTokens(_)
ContentTokens(messages) ==
    IF messages = <<>>
    THEN 0
    ELSE Head(messages).content.words + Head(messages).content.breaks
         + ContentTokens(Tail(messages))

count_vllm_api(messages, service_ok) ==
    IF service_ok
    THEN ContentTokens(messages) + (IF Len(messages) > 1 THEN Len(messages) - 1 ELSE 0)
    ELSE IF word_estimate(messages) > 1 THEN word_estimate(messages) ELSE 1

\* The ways the counter of a manager may count.
Counters == {"tiktoken", "vllm_api", "vllm_api_failed", "fallback"}

\* _get_token_count: the counter's result, or the estimate when the counter
\* raised.
get_token_count(messages, counter) ==
    CASE counter = "tiktoken" -> count_messages(messages)
      [] counter = "vllm_api" -> count_vllm_api(messages, TRUE)
      [] counter = "vllm_api_failed" -> count_vllm_api(messages, FALSE)
      [] OTHER -> word_estimate(messages)

\* A limit the returned prompt may exceed by one token.
WithinLimit_OffByOne(token_count, max_input_tokens) == token_count <= max_input_tokens + 1

\* The test that ends the loop with a prompt.
WithinLimit(token_count, max_input_tokens) == token_count <= max_input_tokens

\* A pop that removes the last element.
pop_first_Last(items) == SubSeq(items, 1, Len(items) - 1)

\* A pop that removes nothing.
pop_first_Kept(items) == items

\* list.pop(0).
pop_first(items) == Tail(items)

\* The manager as configured by its caller, before get_answer_messages.
ContextManager(system_prompt, memories, chat_history, query, max_input_tokens, counter) ==
    [system_prompt |-> system_prompt, self_memories |-> memories,
     self_chat_history |-> chat_history, query |-> query,
     max_input_tokens |-> max_input_tokens, counter |-> counter,
     state |-> "configured", memories |-> <<>>, chat_history |-> <<>>,
     messages |-> <<>>, iterations |-> 0, warning |-> FALSE]

NoContext == ContextManager(0, <<>>, <<>>, 0, 0, "tiktoken")

\* get_answer_messages up to the loop: the local copies of the two lists.
get_answer_messages ==
    /\ ctx.state = "configured"
    /\ ctx' = [ctx EXCEPT !.state = "loop",
                          !.memories = ctx.self_memories,
                          !.chat_history = ctx.self_chat_history]
    /\ UNCHANGED <<conc, store, cfg, budget, pc, user_query, ntasks, idx, tasks, call, ret,
                   context_snapshot, user_responses, linked_codex_ids,
                   llm_call_errors, result, dispatched, api, reg>>

\* One iteration of the loop: return the prompt when it fits, else drop the
\* oldest chat turn, else the first memory, else raise InputTooLongError.
TrimLoop ==
    /\ ctx.state = "loop"
    /\ ctx.iterations <= MaxHistory + MaxMemories + 1
    /\ LET temp_messages == TempMessages(ctx.system_prompt, ctx.memories,
                                         ctx.chat_history, ctx.query)
           token_count == get_token_count(temp_messages, ctx.counter)
       IN ctx' = IF WithinLimit(token_count, ctx.max_input_tokens)
                 THEN [ctx EXCEPT !.state = "returned",
                                  !.messages = temp_messages,
                                  !.iterations = @ + 1]
                 ELSE IF ctx.chat_history # <<>>
                 THEN [ctx EXCEPT !.chat_history = pop_first(@), !.iterations = @ + 1]
                 ELSE IF ctx.memories # <<>>
                 THEN [ctx EXCEPT !.memories = pop_first(@), !.iterations = @ + 1]
                 ELSE [ctx EXCEPT !.state = "raised",
                                  !.warning = TRUE,
                                  !.iterations = @ + 1]
    /\ UNCHANGED <<conc, store, cfg, budget, pc, user_query, ntasks, idx, tasks, call, ret,
                   context_snapshot, user_responses, linked_codex_ids,
                   llm_call_errors, result, dispatched, api, reg>>

\* ======================================================== specifications
\* Plans mixing the three intents, a task without intent and an intent that
\* is not registered; commands with a name outside the command vocabulary
\* and without a name; one field, closed under one spelling and referenced
\* under another.
CoreVocab ==
    {MemoryTask(<<>>, {}, "text"),
     MemoryTask(<<Entity(EuriSpaced)>>, {}, "text"),
     CommandTask(Some("CLOSE_RELATIONAL_FIELD"), TRUE, None, {}, Some(Euri)),
     CommandTask(Some("SET_SILENCE_MODE"), TRUE, None, {}, None),
     CommandTask(Some("REMIND_ME"), TRUE, None, {}, None),
     CommandTask(None, TRUE, None, {}, None),
     QueryTask,
     OtherTask(Some("DOCUMENT")),
     OtherTask(None)}

CoreEnvironment ==
    Environment(CoreVocab, {UserQuery(FALSE, FALSE)}, {"ok", "empty"}, {TRUE},
                {"answer", "too_long", "error"}, {"ok", "raise"})

Init ==
    /\ store = EmptyStore
    /\ cfg = CoreEnvironment
    /\ budget = MaxTasks
    /\ InitRequest
    /\ ctx = NoContext
    /\ api = NoAnswer
    /\ reg = ImportedRegistry
    /\ conc = NoRequests

Next ==
    \/ StartRequest
    \/ BeginPlan
    \/ Dispatch
    \/ HandleMemory
    \/ HandleCommand
    \/ HandleQuery
    \/ HandleUnknown
    \/ Collect
    \/ Aggregate
    \/ Respond
    \/ EndRequest

Spec == Init /\ [][Next]_vars

\* Close and reopen commands over two fields in several spellings, and
\* memories that reference them.
FieldVocab ==
    {CommandTask(Some("CLOSE_RELATIONAL_FIELD"), TRUE, None, {}, Some(Euri)),
     CommandTask(Some("CLOSE_RELATIONAL_FIELD"), TRUE, None, {}, Some(SharonUpper)),
     CommandTask(Some("REOPEN_RELATIONAL_FIELD"), TRUE, None, {}, Some(EuriSpaced)),
     CommandTask(Some("REOPEN_RELATIONAL_FIELD"), TRUE, None, {}, Some(Sharon)),
     MemoryTask(<<Entity(EuriSpaced)>>, {}, "text"),
     MemoryTask(<<Entity(<<>>), Entity(Sharon)>>, {}, "text")}

FieldEnvironment ==
    Environment(FieldVocab, {UserQuery(FALSE, FALSE)}, {"ok"}, {TRUE}, {"answer"}, {"ok"})

InitFields ==
    /\ store = EmptyStore
    /\ cfg = FieldEnvironment
    /\ budget = MaxTasks
    /\ InitRequest
    /\ ctx = NoContext
    /\ api = NoAnswer
    /\ reg = ImportedRegistry
    /\ conc = NoRequests

NextFields ==
    \/ StartRequest
    \/ BeginPlan
    \/ Dispatch
    \/ HandleMemory
    \/ HandleCommand
    \/ Collect
    \/ Aggregate
    \/ Respond
    \/ EndRequest

SpecFields == InitFields /\ [][NextFields]_vars

\* SET_ARCHIVE_MODE with and without a count and exclusions, and memories
\* with and without an excluded tag.
ArchiveCounts == {None} \cup {Some(n) : n \in 1..MaxCount}

ArchiveVocab ==
    {CommandTask(Some("SET_ARCHIVE_MODE"), TRUE, c, {}, None) : c \in ArchiveCounts}
    \cup
    {CommandTask(Some("SET_ARCHIVE_MODE"), TRUE, Some(MaxCount), {"private"}, None),
     CommandTask(Some("SET_ARCHIVE_MODE"), FALSE, None, {}, None),
     MemoryTask(<<>>, {"note"}, "text"),
     MemoryTask(<<>>, {"private"}, "text")}

ArchiveEnvironment ==
    Environment(ArchiveVocab, {UserQuery(FALSE, FALSE)}, {"ok"}, {TRUE}, {"answer"}, {"ok"})

InitArchive ==
    /\ store = EmptyStore
    /\ cfg = ArchiveEnvironment
    /\ budget = MaxTasks
    /\ InitRequest
    /\ ctx = NoContext
    /\ api = NoAnswer
    /\ reg = ImportedRegistry
    /\ conc = NoRequests

NextArchive ==
    \/ StartRequest
    \/ BeginPlan
    \/ Dispatch
    \/ HandleMemory
    \/ HandleCommand
    \/ Collect
    \/ Aggregate
    \/ Respond
    \/ EndRequest
    \/ Restart

SpecArchive == InitArchive /\ [][NextArchive]_vars

\* SET_SILENCE_MODE on and off, with user queries that do and do not contain
\* "archive", and a query task.
SilenceVocab ==
    {CommandTask(Some("SET_SILENCE_MODE"), TRUE, Some(1), {}, None),
     CommandTask(Some("SET_SILENCE_MODE"), FALSE, None, {}, None),
     MemoryTask(<<>>, {}, "text"),
     QueryTask}

SilenceEnvironment ==
    Environment(SilenceVocab,
                {UserQuery(FALSE, FALSE),
                 QueryText(<<"m", "y", " ", "A", "R", "C", "H", "I", "V", "E">>),
                 QueryText(<<"A", "r", "c", "h", "i", "v", "e", " ", "i", "t">>)},
                {"ok"}, {TRUE}, {"answer"}, {"ok"})

InitSilence ==
    /\ store = EmptyStore
    /\ cfg = SilenceEnvironment
    /\ budget = MaxTasks
    /\ InitRequest
    /\ ctx = NoContext
    /\ api = NoAnswer
    /\ reg = ImportedRegistry
    /\ conc = NoRequests

NextSilence ==
    \/ StartRequest
    \/ BeginPlan
    \/ Dispatch
    \/ HandleMemory
    \/ HandleCommand
    \/ HandleQuery
    \/ Collect
    \/ Aggregate
    \/ Respond
    \/ EndRequest

SpecSilence == InitSilence /\ [][NextSilence]_vars

\* The silence commands against a database whose writes may fail.
InitWriteFailure ==
    /\ store = EmptyStore
    /\ cfg = Environment(SilenceVocab, {UserQuery(FALSE, FALSE)},
                         {"ok"}, {TRUE, FALSE}, {"answer"}, {"ok"})
    /\ budget = MaxTasks
    /\ InitRequest
    /\ ctx = NoContext
    /\ api = NoAnswer
    /\ reg = ImportedRegistry
    /\ conc = NoRequests

SpecWriteFailure == InitWriteFailure /\ [][NextSilence]_vars

\* ------------------------------------------------------ concurrent requests
\* Requests handled at the same time by the one event loop: a request runs
\* without interruption from one await to the next, and another request may
\* run in between.  The awaits that matter here are the LLM call of the
\* directive synthesis and the create_codex_entry call of the memory handler.
ConcurrentVocab ==
    {CommandTask(None, TRUE, None, {}, None),
     MemoryTask(<<>>, {"note"}, "text")}
    \cup
    {CommandTask(Some("SET_ARCHIVE_MODE"), TRUE, Some(n), {}, None) : n \in 1..MaxCount}

\* A request arrives with its task.  One run holds one archive activation.
Arrive(r) ==
    /\ conc[r].pc = "idle"
    /\ \E task \in ConcurrentVocab :
        /\ task.command_name = Some("SET_ARCHIVE_MODE")
           => \A q \in 1..MaxRequests : conc[q].task.command_name # Some("SET_ARCHIVE_MODE")
        /\ conc' = [conc EXCEPT ![r] = Request("running", task, 0, FALSE)]
    /\ UNCHANGED <<store, cfg, budget, pc, user_query, ntasks, idx, tasks, call, ret,
                   context_snapshot, user_responses, linked_codex_ids, llm_call_errors,
                   result, dispatched, ctx, api, reg>>

\* _set_archive_mode: no await between its statements.
RunArchiveCommand(r) ==
    /\ conc[r].pc = "running"
    /\ conc[r].task.command_name = Some("SET_ARCHIVE_MODE")
    /\ store' = set_archive_mode(store, conc[r].task.activate, conc[r].task.count,
                                 conc[r].task.except_tags).st
    /\ conc' = [conc EXCEPT ![r].pc = "done"]
    /\ UNCHANGED <<cfg, budget, pc, user_query, ntasks, idx, tasks, call, ret,
                   context_snapshot, user_responses, linked_codex_ids, llm_call_errors,
                   result, dispatched, ctx, api, reg>>

\* _store_directive_protocol_event up to "await llm.generate".
ReadDirective(r) ==
    /\ conc[r].pc = "running"
    /\ conc[r].task.intent = Some("COMMAND")
    /\ conc[r].task.command_name = None
    /\ conc' = [conc EXCEPT ![r].pc = "synthesis",
                            ![r].previous = get_active_protocol_event(store.events, "directive")]
    /\ UNCHANGED <<store, cfg, budget, pc, user_query, ntasks, idx, tasks, call, ret,
                   context_snapshot, user_responses, linked_codex_ids, llm_call_errors,
                   result, dispatched, ctx, api, reg>>

\* _store_directive_protocol_event from the return of the LLM call.
WriteDirective(r) ==
    /\ conc[r].pc = "synthesis"
    /\ \E llm \in DirectiveOutcomes :
        store' = IF llm = "error" THEN store
                 ELSE write_directive(store, conc[r].previous, llm)
    /\ conc' = [conc EXCEPT ![r].pc = "done"]
    /\ UNCHANGED <<cfg, budget, pc, user_query, ntasks, idx, tasks, call, ret,
                   context_snapshot, user_responses, linked_codex_ids, llm_call_errors,
                   result, dispatched, ctx, api, reg>>

\* handle_memory_intent from the return of generate_embedding up to
\* "await create_codex_entry": the archive decision, which takes from the
\* count.  An exception raised by it ends the handler.
DecideArchive(r) ==
    /\ conc[r].pc = "running"
    /\ conc[r].task.intent = Some("MEMORY")
    /\ LET sa == should_archive_on_create(store, conc[r].task.memory_tags)
       IN /\ store' = sa.st
          /\ conc' = [conc EXCEPT ![r].pc = IF sa.raised THEN "done" ELSE "storing",
                                  ![r].should_archive = sa.ret]
    /\ UNCHANGED <<cfg, budget, pc, user_query, ntasks, idx, tasks, call, ret,
                   context_snapshot, user_responses, linked_codex_ids, llm_call_errors,
                   result, dispatched, ctx, api, reg>>

\* handle_memory_intent from create_codex_entry on: the entry is stored with
\* the decision taken before the await, or the store fails.
StoreMemory(r) ==
    /\ conc[r].pc = "storing"
    /\ \E store_ok \in {TRUE, FALSE} :
        store' = IF store_ok
                 THEN [store EXCEPT !.codex =
                          Append(@, CodexEntry("observation_agent", conc[r].task.memory_tags,
                                               None, FALSE, conc[r].should_archive))]
                 ELSE store
    /\ conc' = [conc EXCEPT ![r].pc = "done"]
    /\ UNCHANGED <<cfg, budget, pc, user_query, ntasks, idx, tasks, call, ret,
                   context_snapshot, user_responses, linked_codex_ids, llm_call_errors,
                   result, dispatched, ctx, api, reg>>

InitConcurrent ==
    /\ store = EmptyStore
    /\ cfg = ArchiveEnvironment
    /\ budget = 0
    /\ InitRequest
    /\ ctx = NoContext
    /\ api = NoAnswer
    /\ reg = ImportedRegistry
    /\ conc = NoRequests

NextConcurrent ==
    \E r \in 1..MaxRequests :
        \/ Arrive(r)
        \/ RunArchiveCommand(r)
        \/ ReadDirective(r)
        \/ WriteDirective(r)
        \/ DecideArchive(r)
        \/ StoreMemory(r)

SpecConcurrent == InitConcurrent /\ [][NextConcurrent]_vars

\* A fresh IntentRegistry on which handlers are registered and looked up:
\* a name the application uses, a new name, the name of the fallback, and a
\* name that is only looked up.
IntentNames == {"MEMORY", "CUSTOM", "UNKNOWN"}

HandlerFuncs == {"handle_memory_intent", "handle_custom", "handle_other"}

\* intent_registry.register(intent_name)(handler_func).
RegisterHandler ==
    /\ Len(reg.calls) < MaxRegistrations
    /\ \E intent_name \in IntentNames, handler_func \in HandlerFuncs :
        reg' = RegistryState(register(reg.registry, intent_name, handler_func),
                             Append(reg.calls, <<intent_name, handler_func>>), None)
    /\ UNCHANGED <<conc, store, cfg, budget, pc, user_query, ntasks, idx, tasks, call, ret,
                   context_snapshot, user_responses, linked_codex_ids,
                   llm_call_errors, result, dispatched, ctx, api>>

\* intent_registry.get_handler(intent_name).
GetHandler ==
    /\ \E intent_name \in IntentNames \cup {"DOCUMENT"} :
        reg' = [reg EXCEPT !.looked_up =
                    Some(<<intent_name, registry_get(reg.registry, intent_name)>>)]
    /\ UNCHANGED <<conc, store, cfg, budget, pc, user_query, ntasks, idx, tasks, call, ret,
                   context_snapshot, user_responses, linked_codex_ids,
                   llm_call_errors, result, dispatched, ctx, api>>

InitRegistry ==
    /\ store = EmptyStore
    /\ cfg = CoreEnvironment
    /\ budget = MaxTasks
    /\ InitRequest
    /\ ctx = NoContext
    /\ api = NoAnswer
    /\ reg = RegistryState(NewRegistry, <<>>, None)
    /\ conc = NoRequests

NextRegistry ==
    \/ RegisterHandler
    \/ GetHandler

SpecRegistry == InitRegistry /\ [][NextRegistry]_vars

\* generate_context_block_summary: the condensed context, at most max_tokens
\* long, or "" when the LLM call failed.
generate_context_block_summary(chat_summaries, memories, max_tokens, llm) ==
    LET raw == SumWords(chat_summaries) + SumWords(memories)
    IN IF llm = "error" THEN 0
       ELSE IF raw < max_tokens THEN raw ELSE max_tokens

\* handle_query_intent from the condensation to the token check: the prompt
\* is the system message and one user message holding the condensed context,
\* "\n\n" and the user query; it is counted once and the handler raises
\* InputTooLongError when it is over the limit. The retrieved memories and
\* the recent chat turns are the manager's configured lists.
AssembleAnswerPrompt ==
    /\ ctx.state = "configured"
    /\ \E llm \in {"answer", "error"} :
        LET context_block_summary ==
                generate_context_block_summary(ctx.self_chat_history, ctx.self_memories,
                                               ctx.max_input_tokens \div 2, llm)
            messages == <<Message("system", [words |-> ctx.system_prompt, breaks |-> 0]),
                          Message("user", [words |-> context_block_summary + ctx.query,
                                           breaks |-> 1])>>
        IN ctx' = IF count_messages(messages) > ctx.max_input_tokens
                  THEN [ctx EXCEPT !.state = "raised", !.iterations = 1]
                  ELSE [ctx EXCEPT !.state = IF llm = "error" THEN "uncondensed"
                                             ELSE "condensed",
                                   !.messages = messages,
                                   !.iterations = 1]
    /\ UNCHANGED <<conc, store, cfg, budget, pc, user_query, ntasks, idx, tasks, call, ret,
                   context_snapshot, user_responses, linked_codex_ids,
                   llm_call_errors, result, dispatched, api, reg>>

\* The context assembler on every small configuration: with and without a
\* system prompt and a query, lists of up to MaxMemories memories and
\* MaxHistory chat turns, three limits and both ways of counting.
ItemWords == {1, MaxWords}

SeqsUpTo(n, S) == UNION {[1..k -> S] : k \in 0..n}

TokenLimits == {MaxInputTokens \div 4, MaxInputTokens \div 2, MaxInputTokens}

InitCtx ==
    /\ store = EmptyStore
    /\ cfg = CoreEnvironment
    /\ budget = 0
    /\ InitRequest
    /\ api = NoAnswer
    /\ reg = ImportedRegistry
    /\ conc = NoRequests
    /\ ctx \in {ContextManager(sp, m, h, q, lim, c) :
                    sp \in {0, MaxWords}, m \in SeqsUpTo(MaxMemories, ItemWords),
                    h \in SeqsUpTo(MaxHistory, ItemWords), q \in {0, 1, MaxWords},
                    lim \in TokenLimits, c \in Counters}

NextCtx ==
    \/ get_answer_messages
    \/ TrimLoop

SpecCtx == InitCtx /\ [][NextCtx]_vars

\* The prompt assembly of the QUERY handler on the same configurations.
SpecAnswerPrompt == InitCtx /\ [][AssembleAnswerPrompt]_vars

\* The call runs to its end: nothing suspends it between two iterations.
SpecCtxFair == SpecCtx /\ WF_vars(NextCtx)

\* ================================================================= claims
\* The loop indices 1..n in order.
InOrder(n) == [k \in 1..n |-> k]

\* A handler of this request returned the protocol refusal of a closed field
\* (the MEMORY handler logs it in the context snapshot when it refuses).
RefusalReturned == context_snapshot.protocol_blocked_memory

\* C1: when the handler of task i returns a protocol refusal, the plan stops
\* there: the handlers invoked are exactly those of tasks 1..i, no further
\* dispatch can happen, and execute_plan returns the refusal text with a null
\* linked id, whatever memories earlier tasks created.
C1_RefusalStopsPlan ==
    RefusalReturned =>
        /\ pc \in {"collect", "done", "responded"}
        /\ dispatched = InOrder(idx)
        /\ pc \in {"done", "responded"} =>
            /\ result.kind = "returned"
            /\ result.response = <<SealedMessage>>
            /\ result.linked = None

\* C1 witness: a refusal ended a plan in which an earlier task had created a
\* memory and later tasks were left.
C1_Witness ==
    /\ RefusalReturned
    /\ pc = "done"
    /\ linked_codex_ids # <<>>
    /\ idx < ntasks

GenericErrorTexts ==
    {<<"I encountered an issue while processing your request.">>,
     <<"A critical and unexpected error occurred.">>}

\* C10: execute_plan never ends in an exception. Once the dispatch step or a
\* handler has raised at task i, no later task is dispatched and the plan
\* returns a generic error text, a null linked id and a non-null error.
C10_NeverRaises ==
    /\ result.kind # "raised"
    /\ ret.kind = "raised" =>
        /\ pc \in {"collect", "done", "responded"}
        /\ \A k \in 1..Len(dispatched) : dispatched[k] <= idx
        /\ pc \in {"done", "responded"} =>
            /\ result.kind = "returned"
            /\ result.response \in GenericErrorTexts
            /\ result.linked = None
            /\ result.errors # None
            /\ result.errors[1] # <<>>

\* C10 witness: a handler raised in the middle of a plan, after an earlier
\* task had created a memory and reported an error, and the plan returned.
C10_Witness ==
    /\ pc = "done"
    /\ ret.kind = "raised"
    /\ ret.exc \notin {"TaskOrchestrationError", "Exception"}
    /\ idx < ntasks
    /\ llm_call_errors # <<>>
    /\ result.kind = "returned"

\* C21: a request that ended in a protocol refusal is not saved as a chat
\* history turn.
C21_BlockedNotPersisted ==
    (/\ pc = "responded"
     /\ context_snapshot.protocol_blocked_memory)
    => api.kind # "chat_entry"

\* C24: when an exception ended the plan, the error returned by
\* execute_plan has one part, the message of that exception.
C24_ExceptionIsSoleError ==
    (/\ pc = "done"
     /\ ret.kind = "raised")
    => /\ result.errors # None
       /\ Len(result.errors[1]) = 1

\* C13: a plan that ran to completion returns the id of the first memory
\* created by its tasks in task order (null when none was created; in the
\* first request of a run that is the first memory row of the table) and the
\* per-task errors in task order (null when there was none): every handler
\* result that the loop accepts adds its id and its error, if any, at the
\* end of what the earlier tasks gave.
C13_FirstIdAndJoinedErrors ==
    /\ [](LET memories == {i \in 1..Len(store.codex) :
                               store.codex[i].type = "observation_agent"}
              least(S) == CHOOSE i \in S : \A j \in S : i <= j
          IN (/\ pc = "done"
              /\ idx = ntasks + 1)
             => /\ result.kind = "returned"
                /\ result.linked = IF linked_codex_ids = <<>> THEN None
                                    ELSE Some(least({linked_codex_ids[k] :
                                                        k \in 1..Len(linked_codex_ids)}))
                /\ budget + ntasks = MaxTasks =>
                        result.linked = IF memories = {} THEN None
                                        ELSE Some(least(memories))
                /\ result.errors = IF llm_call_errors = <<>> THEN None
                                    ELSE Some(llm_call_errors))
    /\ [][(pc = "collect" /\ pc' \in {"dispatching", "aggregate"})
          => /\ llm_call_errors' = IF ret.error = None THEN llm_call_errors
                                    ELSE llm_call_errors \o <<ret.error[1]>>
             /\ linked_codex_ids' = IF ret.linked = None THEN linked_codex_ids
                                     ELSE linked_codex_ids \o <<ret.linked[1]>>]_vars

\* C13 witness: a plan whose first task failed and whose later tasks created
\* two memories ran to completion.
C13_Witness ==
    /\ pc = "done"
    /\ idx = ntasks + 1
    /\ Len(linked_codex_ids) >= 2
    /\ llm_call_errors # <<>>
    /\ tasks[1].intent # Some("MEMORY")
    /\ result.linked = Some(linked_codex_ids[1])

\* C14: a handler result that carries an error and is not a protocol refusal
\* does not end the plan: the loop records the error and moves to the next
\* task, and a plan that ended without refusal and without exception has
\* dispatched every task and returns the texts of its tasks together with
\* the recorded errors.
C14_ErrorDoesNotStopPlan ==
    /\ [][(/\ pc = "collect"
           /\ ret.kind = "returned"
           /\ ret.error # None
           /\ ~context_snapshot.protocol_blocked_memory)
          => /\ pc' = IF idx < ntasks THEN "dispatching" ELSE "aggregate"
             /\ idx' = idx + 1
             /\ llm_call_errors' = llm_call_errors \o <<ret.error[1]>>
             /\ result' = NoResult]_vars
    /\ []((/\ pc = "done"
           /\ ret.kind = "none"
           /\ llm_call_errors # <<>>)
          => /\ dispatched = InOrder(ntasks)
             /\ result.errors = Some(llm_call_errors)
             /\ user_responses # <<>> => result.response = user_responses)

\* C14 witness: the embedding failed for the first MEMORY task of a plan;
\* the later tasks ran, one of them stored a memory, and the plan returned
\* their texts with the error.
C14_Witness ==
    /\ pc = "done"
    /\ ret.kind = "none"
    /\ ntasks >= 3
    /\ tasks[1].intent = Some("MEMORY")
    /\ llm_call_errors = <<"Embedding generation failed.">>
    /\ Len(result.response) = ntasks
    /\ result.linked # None

\* C15: a request in which the prompt of a QUERY task was over the input
\* token limit ends in the input-too-long outcome (the 422 answer of the API
\* layer), not in a chat entry with the generic failure text.
C15_InputTooLongSurfaced ==
    LET too_long == "Unexpected critical error during RAG/QUERY: Context cannot be reduced below input token limit."
    IN (/\ pc = "responded"
        /\ \E k \in 1..Len(llm_call_errors) : llm_call_errors[k] = too_long)
       => api.kind = "http_422"

\* C18: after any sequence of register calls, get_handler gives for every
\* name the handler of the last register call under that name, and for a
\* name no register call was made under the fallback (the handler under
\* "UNKNOWN": handle_unknown_intent, or the one last registered there); the
\* lookup that was just made returned that handler.
C18_LastRegistrationWins ==
    LET under(n) == {k \in 1..Len(reg.calls) : reg.calls[k][1] = n}
        last(n) == reg.calls[CHOOSE k \in under(n) : \A j \in under(n) : j <= k][2]
        fallback == IF under("UNKNOWN") = {} THEN "handle_unknown_intent"
                    ELSE last("UNKNOWN")
        expected(n) == IF under(n) = {} THEN fallback ELSE last(n)
    IN /\ \A n \in IntentNames \cup {"DOCUMENT", "QUERY", "COMMAND"} :
            registry_get(reg.registry, n) = expected(n)
       /\ reg.looked_up # None =>
            reg.looked_up[1][2] = expected(reg.looked_up[1][1])

\* C18 witness: a name was registered with one handler and later with
\* another, and the lookup of the name returned the later one.
C18_Witness ==
    /\ Len(reg.calls) = MaxRegistrations
    /\ reg.calls[1][1] = "CUSTOM"
    /\ reg.calls[MaxRegistrations] = <<"CUSTOM", "handle_other">>
    /\ reg.calls[1][2] # "handle_other"
    /\ reg.looked_up = Some(<<"CUSTOM", "handle_other">>)

NormalizedName(field) == lower(strip(field))

NormalizedNames == {NormalizedName(f) : f \in {Euri, EuriSpaced, Sharon, SharonUpper}}

\* The rows of the table written by close and reopen commands for the name.
FieldRows(cx, name) ==
    {i \in 1..Len(cx) : /\ cx[i].type = RESTATE_TYPE
                        /\ cx[i].field # None
                        /\ NormalizedName(cx[i].field[1]) = name}

\* The most recent close or reopen command for the name was a close.
LastCommandClosed(cx, name) ==
    LET rows == FieldRows(cx, name)
    IN /\ rows # {}
       /\ cx[CHOOSE i \in rows : \A j \in rows : j <= i].closed

\* C3: get_closed_fields holds a name exactly when the most recent close or
\* reopen command for that name was a close (last writer wins).
C3_LastWriterWins ==
    \A name \in NormalizedNames :
        name \in get_closed_fields(store.codex) <=> LastCommandClosed(store.codex, name)

\* C4: right after a close of a field followed by a reopen of the same field
\* (in any spelling), get_closed_fields does not hold its normalised name,
\* and every other name is closed exactly when it was closed before the pair.
C4_CloseReopenRoundTrip ==
    LET cx == store.codex
        n == Len(cx)
    IN (/\ n >= 2
        /\ cx[n - 1] \in {ClosedFieldEntry(f) : f \in {Euri, EuriSpaced, Sharon, SharonUpper}}
        /\ cx[n] \in {ReopenedFieldEntry(f) : f \in {Euri, EuriSpaced, Sharon, SharonUpper}}
        /\ NormalizedName(cx[n - 1].field[1]) = NormalizedName(cx[n].field[1]))
       => /\ NormalizedName(cx[n].field[1]) \notin get_closed_fields(cx)
          /\ \A other \in NormalizedNames \ {NormalizedName(cx[n].field[1])} :
                other \in get_closed_fields(cx)
                    <=> other \in get_closed_fields(SubSeq(cx, 1, n - 2))

\* C4 witness: a field closed as "Eu" was reopened as " eU " while another
\* field stayed closed.
C4_Witness ==
    LET cx == store.codex
        n == Len(cx)
    IN /\ n >= 3
       /\ cx[n - 1] = ClosedFieldEntry(Euri)
       /\ cx[n] = ReopenedFieldEntry(EuriSpaced)
       /\ NormalizedName(Sharon) \in get_closed_fields(cx)
       /\ pc = "collect"

\* The task references, among its entities, a field whose most recent
\* command was a close.
ReferencesClosedField(task, cx) ==
    \E i \in 1..Len(task.extracted_entities) :
        /\ task.extracted_entities[i].text # <<>>
        /\ LastCommandClosed(cx, NormalizedName(task.extracted_entities[i].text))

\* C6: a MEMORY task that references a currently closed field is refused with
\* the sealed-field message and stores nothing, in the plan of the close
\* command and in later requests.
C6_ClosedFieldRefused ==
    [][(/\ pc = "handler"
        /\ call = "handle_memory_intent"
        /\ ReferencesClosedField(tasks[idx], store.codex))
       => (/\ ret'.kind = "returned"
           /\ ret'.response = SealedMessage
           /\ store'.codex = store.codex)]_vars

\* ------------------------------------------------------------ archive mode
IsActivation(task) ==
    /\ task.intent = Some("COMMAND")
    /\ task.command_name = Some("SET_ARCHIVE_MODE")
    /\ task.activate

IsMemory(task) == task.intent = Some("MEMORY")

\* C2: after activate_archive_mode(count=N), N >= 1, without exclusions, the
\* M memory creations that follow are all stored, the first min(N, M) of them
\* archived and the later ones not, and the counter is cleared from the N-th
\* creation on. Stated for the first request of a run, whose plan is the
\* activation followed by memory tasks, at every point between two tasks.
C2_ArchivesFirstN ==
    (/\ pc \in {"dispatching", "aggregate"}
     /\ budget + ntasks = MaxTasks
     /\ Len(tasks) >= 2
     /\ Len(tasks) = idx - 1
     /\ IsActivation(tasks[1])
     /\ tasks[1].count # None
     /\ tasks[1].except_tags = {}
     /\ \A k \in 2..Len(tasks) : IsMemory(tasks[k]))
    => LET N == tasks[1].count[1]
           M == Len(tasks) - 1
       IN /\ Len(store.codex) = M
          /\ \A k \in 1..Len(store.codex) : store.codex[k].archived <=> k <= N
          /\ M >= N => store.archive_mode_count = None

\* C7: handlers are invoked in task order, each task once, and only when no
\* other handler of the plan is running or uncollected; a MEMORY task that
\* directly follows a SET_ARCHIVE_MODE activation in the same plan runs
\* against the counter and the event that the activation wrote.
C7_SequentialDispatch ==
    /\ dispatched = InOrder(Len(dispatched))
    /\ Len(dispatched) <= ntasks
    /\ pc = "handler" =>
        /\ call # ""
        /\ ret.kind = "none"
        /\ Len(dispatched) = idx
        /\ (/\ idx > 1
            /\ IsMemory(tasks[idx])
            /\ IsActivation(tasks[idx - 1]))
           => /\ store.archive_mode_count = tasks[idx - 1].count
              /\ get_active_protocol_event(store.events, "archive_mode") = Len(store.events)
    /\ pc # "handler" => call = ""

\* C7 witness: the memory task that followed an activation with count 2 in
\* the same plan was stored as archived.
C7_Witness ==
    /\ pc = "collect"
    /\ idx > 1
    /\ IsMemory(tasks[idx])
    /\ IsActivation(tasks[idx - 1])
    /\ tasks[idx - 1].count = Some(2)
    /\ ret.linked # None
    /\ store.codex[Len(store.codex)].archived

\* C26: should_archive_on_create called with a tag of the excluded-tag set
\* returns false and leaves the remaining count and both exclusion sets as
\* they were; called while no counter is active (no count, or a count of 0)
\* it returns false and changes no state.  The memory the handler then stores
\* is not archived.
C26_ExcludedOrInactiveLeavesState ==
    [][LET tags == tasks[idx].memory_tags
           sa == should_archive_on_create(store, tags)
           excluded == /\ store.archive_mode_count # None
                       /\ store.archive_mode_count[1] > 0
                       /\ store.archive_mode_except_tags # None
                       /\ store.archive_mode_except_tags[1] \cap tags # {}
           inactive == \/ store.archive_mode_count = None
                       \/ store.archive_mode_count[1] = 0
       IN (/\ pc = "handler"
           /\ call = "handle_memory_intent"
           /\ excluded \/ inactive)
          => /\ sa = [ret |-> FALSE, raised |-> FALSE, st |-> store]
             /\ store'.archive_mode_count = store.archive_mode_count
             /\ store'.archive_mode_except_ids = store.archive_mode_except_ids
             /\ store'.archive_mode_except_tags = store.archive_mode_except_tags
             /\ store'.events = store.events
             /\ \A k \in Len(store.codex) + 1 .. Len(store'.codex) :
                    ~store'.codex[k].archived]_vars

\* C26 witness: with a count of 2 left and "private" excluded, a memory
\* tagged "private" was stored, not archived, and the count is still 2.
C26_Witness ==
    /\ pc = "collect"
    /\ IsMemory(tasks[idx])
    /\ tasks[idx].memory_tags = {"private"}
    /\ store.archive_mode_count = Some(2)
    /\ store.archive_mode_except_tags = Some({"private"})
    /\ ret.linked = Some(Len(store.codex))
    /\ ~store.codex[Len(store.codex)].archived

C16_ExhaustedCountCleared ==
    [][(/\ pc = "handler"
        /\ call = "handle_memory_intent"
        /\ store.archive_mode_count = Some(1)
        /\ store'.archive_mode_count # Some(1))
       => (/\ store'.archive_mode_count = None
           /\ store'.archive_mode_except_ids = None
           /\ store'.archive_mode_except_tags = None
           /\ get_active_protocol_event(store'.events, "archive_mode")
                  # get_active_protocol_event(store.events, "archive_mode"))]_vars

\* C17: the in-memory archive state is set exactly when the log holds an
\* active archive_mode event.
C17_StateMatchesLog ==
    (\/ store.archive_mode_count # None
     \/ store.archive_mode_except_ids # None
     \/ store.archive_mode_except_tags # None)
    <=> ActiveEvents(store.events, "archive_mode") # {}

\* ------------------------------------------------------------ silence mode
IsSilenceCommand(task, activate) ==
    /\ task.intent = Some("COMMAND")
    /\ task.command_name = Some("SET_SILENCE_MODE")
    /\ task.activate = activate

\* C20: a COMMAND task named SET_SILENCE_MODE whose user text spells
\* "archive" in upper or mixed case reaches the handler as SET_ARCHIVE_MODE
\* and runs as such, with the task's own activate, count and exclusions: it
\* writes an active archive_mode event and the counter, or clears them, and
\* leaves the silence_mode events as they were. With a user text that does
\* not hold the word the task keeps its name and writes a silence_mode event,
\* leaving the archive state alone.
C20_SilenceRewrittenToArchive ==
    [][LET archive_said ==
               user_query.text \in {<<"m", "y", " ", "A", "R", "C", "H", "I", "V", "E">>,
                                    <<"A", "r", "c", "h", "i", "v", "e", " ", "i", "t">>}
           of_type(ev, t) == SelectSeq(ev, LAMBDA e : e.event_type = t)
           task == tasks[idx]
       IN (/\ pc = "handler"
           /\ call = "handle_command_intent"
           /\ task.command_name \in {Some("SET_SILENCE_MODE"), Some("SET_ARCHIVE_MODE")})
          => IF archive_said
             THEN /\ task.command_name = Some("SET_ARCHIVE_MODE")
                  /\ of_type(store'.events, "silence_mode") = of_type(store.events, "silence_mode")
                  /\ ret'.kind = "returned"
                  /\ ret'.error = None
                  /\ IF task.activate
                     THEN /\ store'.archive_mode_count = task.count
                          /\ store'.archive_mode_except_tags = Some(task.except_tags)
                          /\ store'.events = Append(store.events,
                                                    ProtocolEvent("archive_mode", TRUE))
                     ELSE /\ store'.archive_mode_count = None
                          /\ store'.archive_mode_except_tags = None
                          /\ ActiveEvents(store'.events, "archive_mode")
                                = ActiveEvents(store.events, "archive_mode")
                                    \ {get_active_protocol_event(store.events, "archive_mode")}
             ELSE /\ task.command_name = Some("SET_SILENCE_MODE")
                  /\ Len(of_type(store'.events, "silence_mode"))
                        = Len(of_type(store.events, "silence_mode")) + 1
                  /\ of_type(store'.events, "archive_mode") = of_type(store.events, "archive_mode")
                  /\ store'.archive_mode_count = store.archive_mode_count]_vars

\* C20 witness: while silence was in effect, SET_SILENCE_MODE with count 1
\* and the user text "my ARCHIVE" ran as an archive activation.
C20_Witness ==
    /\ pc = "collect"
    /\ user_query.text = <<"m", "y", " ", "A", "R", "C", "H", "I", "V", "E">>
    /\ tasks[idx].command_name = Some("SET_ARCHIVE_MODE")
    /\ tasks[idx].activate
    /\ context_snapshot.initial_silence_state
    /\ ActiveEvents(store.events, "silence_mode") # {}
    /\ store.archive_mode_count = Some(1)
    /\ store.events[Len(store.events)] = ProtocolEvent("archive_mode", TRUE)

\* C25: when the creation of the new silence_mode event fails during
\* SET_SILENCE_MODE{activate=true}, the handler returns the failure as the
\* task's error (it does not raise, so the plan continues) and every event
\* of the log keeps its state: the silence_mode event that was active before
\* the command is still active after it.
C25_FailedWriteKeepsEvents ==
    [][(/\ pc = "handler"
        /\ call = "handle_command_intent"
        /\ IsSilenceCommand(tasks[idx], TRUE)
        /\ Len(store'.events) = Len(store.events))
       => /\ ret'.kind = "returned"
          /\ ret'.error # None
          /\ store'.events = store.events]_vars

\* C27: the silence flag is read once, when the request starts, and does not
\* change while the request runs; every handler that execute_plan invokes
\* runs with that value, also after an earlier task of the same plan has
\* activated or deactivated silence in the log.
C27_HandlersGetRequestStartFlag ==
    [][LET flag == context_snapshot.initial_silence_state
           task == tasks[idx]
           ran(e) == store' = e.st /\ ret' = e.ret
       IN /\ (pc = "idle" /\ pc' # "idle")
             => context_snapshot'.initial_silence_state = handle_silence_protocol(store)
          /\ (pc # "idle" /\ pc' # "idle")
             => context_snapshot'.initial_silence_state = flag
          /\ (pc = "handler" /\ call = "handle_memory_intent")
             => \E embedding \in cfg.embeddings, store_ok \in cfg.stores :
                    ran(handle_memory_intent(store, task, user_query, flag,
                                             embedding, store_ok))
          /\ (pc = "handler" /\ call = "handle_command_intent")
             => \E store_ok \in cfg.stores, llm \in cfg.answers \cap DirectiveOutcomes :
                    ran(handle_command_intent(store, task, user_query, flag,
                                              store_ok, llm))
          /\ (pc = "handler" /\ call = "handle_query_intent")
             => \E answer \in cfg.answers :
                    ran(handle_query_intent(store, task, flag, answer))]_vars

\* C27 witness: the request started without silence, its first task
\* activated silence, and the memory task after it was answered aloud.
C27_Witness ==
    /\ pc = "collect"
    /\ idx > 1
    /\ IsSilenceCommand(tasks[idx - 1], TRUE)
    /\ IsMemory(tasks[idx])
    /\ ~context_snapshot.initial_silence_state
    /\ handle_silence_protocol(store)
    /\ ret.kind = "returned"
    /\ ret.response = "Memory stored."

\* C28: when the concurrent requests that store a standing directive have all
\* finished, under every interleaving of their reads, LLM awaits and writes,
\* the log holds at most one active directive event.
C28_OneActiveDirective ==
    (\A r \in 1..MaxRequests : conc[r].pc \in {"idle", "done"})
    => Cardinality(ActiveEvents(store.events, "directive")) <= 1

\* C30: after activate_archive_mode(count=N), under every interleaving of
\* memory-creation requests, the remaining count is never negative and the
\* number of memories stored as archived is at most N minus the remaining
\* count (a cleared count taken as nothing remaining).
C30_ArchivedWithinConsumedCount ==
    LET archived == Cardinality({k \in 1..Len(store.codex) : store.codex[k].archived})
        remaining == IF store.archive_mode_count = None THEN 0
                     ELSE store.archive_mode_count[1]
    IN /\ remaining >= 0
       /\ \A r \in 1..MaxRequests :
             (/\ conc[r].pc = "done"
              /\ conc[r].task.command_name = Some("SET_ARCHIVE_MODE"))
             => archived <= conc[r].task.count[1] - remaining
       /\ (\A r \in 1..MaxRequests :
              ~(conc[r].pc = "done" /\ conc[r].task.command_name = Some("SET_ARCHIVE_MODE")))
          => archived = 0

\* C30 witness: after an activation with count 2, one memory request took
\* from the count and waits for its store while a second one, run in
\* between, took the last of the count; nothing is archived yet.
C30_Witness ==
    \E a, m1, m2 \in 1..MaxRequests :
        /\ m1 # m2
        /\ conc[a].pc = "done"
        /\ conc[a].task.count = Some(2)
        /\ conc[m1].pc = "storing"
        /\ conc[m1].should_archive
        /\ conc[m2].pc = "done"
        /\ conc[m2].task.intent = Some("MEMORY")
        /\ store.archive_mode_count = Some(0)
        /\ store.codex = <<>>

\* C5: the log never holds more than one active silence_mode event, and
\* holds exactly one when a SET_SILENCE_MODE{activate=true} command has
\* just completed.
C5_OneActiveSilenceEvent ==
    /\ Cardinality(ActiveEvents(store.events, "silence_mode")) <= 1
    /\ (/\ pc = "collect"
        /\ IsSilenceCommand(tasks[idx], TRUE)
        /\ ret.kind = "returned"
        /\ ret.error = None)
       => Cardinality(ActiveEvents(store.events, "silence_mode")) = 1

\* C5 witness: silence was activated while it was already active, after an
\* earlier activation had been ended by a deactivation.
C5_Witness ==
    /\ pc = "collect"
    /\ IsSilenceCommand(tasks[idx], TRUE)
    /\ context_snapshot.initial_silence_state
    /\ Len(store.events) >= 4
    /\ Cardinality(ActiveEvents(store.events, "silence_mode")) = 1

\* ------------------------------------------------------ context assembler
\* C8: get_answer_messages ends in a message list whose token count, as the
\* manager's counter counts it, is at most max_input_tokens, or in an
\* InputTooLongError; the list it returns is never over the limit.
C8_NeverOverBudget ==
    /\ ctx.state \in {"configured", "loop", "returned", "raised"}
    /\ ctx.state = "returned" =>
        get_token_count(ctx.messages, ctx.counter) <= ctx.max_input_tokens
    /\ ctx.state # "returned" => ctx.messages = <<>>

\* C8 witness: a prompt was returned after chat turns and memories had been
\* dropped from a context that was over the limit.
C8_Witness ==
    /\ ctx.state = "returned"
    /\ ctx.messages # <<>>
    /\ Len(ctx.chat_history) < Len(ctx.self_chat_history)
    /\ Len(ctx.memories) < Len(ctx.self_memories)
    /\ get_token_count(TempMessages(ctx.system_prompt, ctx.self_memories,
                                    ctx.self_chat_history, ctx.query), ctx.counter)
            > ctx.max_input_tokens

\* C22: when the condensation call failed and the raw memories and chat
\* turns fit the budget as they are, the prompt of the generative call holds
\* them: it has the words of the prompt the trimming loop gives for the raw
\* lists.
C22_RawContextAfterFailedCondensation ==
    LET raw == TempMessages(ctx.system_prompt, ctx.self_memories,
                            ctx.self_chat_history, ctx.query)
    IN (/\ ctx.state = "uncondensed"
        /\ count_messages(raw) <= ctx.max_input_tokens)
       => ContentWords(ctx.messages) = ContentWords(raw)

\* C23: while get_answer_messages trims, the kept chat history is a suffix of
\* the configured one and the kept memories a suffix of the configured ones,
\* all memories are kept while a chat turn remains, and a returned prompt is
\* built from the configured system prompt, the kept memories, the kept
\* history and the configured query, each in full.
C23_FifoTrimKeepsPromptAndQuery ==
    LET suffix(kept, all) ==
            /\ Len(kept) <= Len(all)
            /\ kept = SubSeq(all, Len(all) - Len(kept) + 1, Len(all))
    IN ctx.state \in {"loop", "returned", "raised"} =>
        /\ suffix(ctx.chat_history, ctx.self_chat_history)
        /\ suffix(ctx.memories, ctx.self_memories)
        /\ ctx.chat_history # <<>> => ctx.memories = ctx.self_memories
        /\ ctx.state = "returned" =>
            /\ ctx.messages = TempMessages(ctx.system_prompt, ctx.memories,
                                           ctx.chat_history, ctx.query)
            /\ ctx.system_prompt > 0 =>
                    ctx.messages[1] = Message("system", [words |-> ctx.system_prompt,
                                                         breaks |-> 0])
            /\ ctx.messages # <<>> =>
                    ctx.messages[Len(ctx.messages)].content.words >= ctx.query

\* C23 witness: a prompt was returned after both chat turns and the first
\* of two memories of different lengths had been dropped.
C23_Witness ==
    /\ ctx.state = "returned"
    /\ ctx.self_memories = <<1, MaxWords>>
    /\ ctx.memories = <<MaxWords>>
    /\ Len(ctx.self_chat_history) = MaxHistory
    /\ ctx.chat_history = <<>>
    /\ ctx.system_prompt > 0
    /\ ctx.query > 0

\* The chat turns and memories dropped so far.
Removed ==
    (Len(ctx.self_chat_history) - Len(ctx.chat_history))
        + (Len(ctx.self_memories) - Len(ctx.memories))

\* Every iteration that did not end the loop dropped exactly one chat turn
\* or one memory, and the loop ended at the latest in iteration
\* len(history) + len(memories) + 1.
IterationsCounted ==
    /\ ctx.state = "loop" => ctx.iterations = Removed
    /\ ctx.state \in {"returned", "raised"} => ctx.iterations = Removed + 1
    /\ ctx.state = "raised" => ctx.chat_history = <<>> /\ ctx.memories = <<>>
    /\ ctx.iterations <= Len(ctx.self_chat_history) + Len(ctx.self_memories) + 1

\* C9: the trimming loop of get_answer_messages ends for every input, after
\* at most len(history) + len(memories) + 1 iterations, each over-budget
\* iteration dropping exactly one chat turn or one memory or raising.
C9_LoopTerminates ==
    /\ []IterationsCounted
    /\ <>(ctx.state \in {"returned", "raised"})

\* C9 witness: the loop raised in iteration len(history) + len(memories) + 1
\* after dropping every chat turn and every memory of the longest lists.
C9_Witness ==
    /\ ctx.state = "raised"
    /\ Len(ctx.self_chat_history) = MaxHistory
    /\ Len(ctx.self_memories) = MaxMemories
    /\ ctx.iterations = MaxHistory + MaxMemories + 1

\* C11: while silence is in effect, a request in which a COMMAND task has
\* executed (its handler ran and returned) is answered with a non-empty
\* confirmation text.
C11_CommandConfirmed ==
    LET executed == {k \in 1..Len(tasks) :
                        /\ tasks[k].intent = Some("COMMAND")
                        /\ k \in {dispatched[j] : j \in 1..Len(dispatched)}
                        /\ (k < idx \/ (k = idx /\ ret.kind = "returned"))}
    IN (/\ pc = "responded"
        /\ api.kind = "chat_entry"
        /\ context_snapshot.initial_silence_state
        /\ executed # {})
       => api.companion_response # <<>>

\* C12: under silence, with no archive mode pending, a MEMORY task with
\* non-empty content stores its memory and its handler returns an empty
\* text, the id of the created memory and no error.
C12_SilentMemoryStored ==
    [][(/\ pc = "handler"
        /\ call = "handle_memory_intent"
        /\ context_snapshot.initial_silence_state
        /\ store.archive_mode_count = None
        /\ MemContentPresent(tasks[idx], user_query))
       => (/\ Len(store'.codex) = Len(store.codex) + 1
           /\ ret' = Returned("", Some(Len(store'.codex)), None))]_vars

====
